---- MODULE Spec2Model ----
(***************************************************************************)
(* Asset loading and scene initialisation of the truck visualisation:      *)
(* loadAssetWithRetry, AssetLoader (cache, preload, path resolution,       *)
(* clearCache/dispose) and LazyDecoderLoader, as state machines.           *)
(*                                                                         *)
(* Strings the code manipulates (asset paths, base paths) are sequences of *)
(* one-character strings, so that startsWith / replace / concatenation are *)
(* computed.  Object identity (a THREE.Group, a THREE.Texture) is a        *)
(* natural number handed out by a counter.                                 *)
(***************************************************************************)
EXTENDS Integers, Sequences, FiniteSets, TLC

VARIABLES
  \* ---- loadAssetWithRetry: one call of the function
  rPc,        \* "idle" | "attempting" | "waiting" | "resolved" | "rejected"
  rFn,        \* loadFn: <<"operation">> or <<"loadGLB", path>>
  rName,      \* assetName
  rMax,       \* maxRetries, after the default was applied
  rExtra,     \* arguments passed after maxRetries (the function declares none)
  rAttempt,   \* the loop variable `attempt`
  rLastError, \* the local `lastError`
  rCalls,     \* number of times loadFn was invoked
  rLog,       \* what the call did, in order
  rResult,    \* how the returned promise settled
  \* ---- AssetLoader
  calls,      \* the promises loadGLB / loadTexture returned, in call order
  insts,      \* the objects created by fetches and clones, by identity
  loadedAssets, \* the cache: full path -> object identity
  disposed,   \* GPU resources on which dispose() ran
  glbTextured,\* whether the materials of the served truck model carry texture maps
  leaked,     \* resources reachable from an object not disposed when clear() dropped it
  lastVal,    \* full path -> what the latest resolved load of it returned (history)
  pre,        \* the preloadAssets call
  dracoLoader,\* AssetLoader.dracoLoader: "set" | "null"
  lastOp,     \* last AssetLoader method that returned
  \* ---- getAssetPath as a function under test
  pBase, pRel, pOut,
  \* ---- LazyDecoderLoader
  instance,   \* the static LazyDecoderLoader.instance: 0 (null) or an object of mgrs
  mgrs,       \* the LazyDecoderLoader objects ever constructed, with their fields
  proms,      \* the promises performInitialization returned
  initCalls,  \* the initializeDecoders() calls, with how their promise stands
  bootstraps, \* number of times performInitialization ran
  dThrown,    \* what the last getInstance call threw ("none" when it returned)
  dReturned,  \* the last getInstance call: its argument, the instance before, the result
  dracos,     \* the DRACOLoader objects LazyDecoderLoader constructed, live or disposed
  \* ---- loadGLBWithPlaceholder
  ph,         \* the call: its placeholder, its result promise
  children,   \* scene.children
  \* ---- SceneInitializer
  si,         \* the SceneInitializer object: state flags, transforms, last method
  readyState, \* document.readyState: "loading" | "complete"
  waits,      \* the waitForCSS() calls, each with its position
  sceneCalls, \* the initializeScene() calls
  tfetches,   \* the fetches of the transform configuration loadTransforms() started
  app,        \* App's effect: where initScene stands, whether it is mounted
  \* ---- applyTransforms
  xf,         \* the object under applyTransforms and the writes made to it
  \* ---- validateTransforms / validateAgainstConfig
  vd,         \* the configuration file, the object, the calls made and their results
  \* ---- TruckModel
  tm          \* the component's effects, its refs and the truck group

retryVars == <<rPc, rFn, rName, rMax, rExtra, rAttempt, rLastError, rCalls, rLog, rResult>>
loaderVars == <<calls, insts, loadedAssets, disposed, glbTextured, leaked, lastVal, pre, dracoLoader, lastOp>>
pathVars == <<pBase, pRel, pOut>>
decoderVars == <<instance, mgrs, proms, initCalls, bootstraps, dThrown, dReturned, dracos>>
placeholderVars == <<ph, children>>
sceneVars == <<si, readyState, waits, sceneCalls, tfetches, app>>
transformVars == <<xf>>
validateVars == <<vd>>
truckVars == <<tm>>
appVars == <<placeholderVars, sceneVars, transformVars, validateVars, truckVars>>
vars == <<retryVars, loaderVars, pathVars, decoderVars, appVars>>

(***************************************************************************)
(* Bounds of the model.                                                    *)
(***************************************************************************)
MaxRetriesBound == 3   \* largest maxRetries a caller passes
MaxLoads == 4          \* loadGLB / loadTexture calls in one behaviour
MaxPathLen == 4        \* longest relative path handed to getAssetPath
MaxBaseLen == 2        \* longest base path handed to getAssetPath
MaxManagers == 2       \* LazyDecoderLoader objects constructed in one behaviour
MaxInitCalls == 3      \* initializeDecoders() calls in one behaviour
MaxWaits == 2          \* waitForCSS() calls in one behaviour
MaxSceneCalls == 2     \* initializeScene() calls in one behaviour
MaxFetches == 2        \* fetches of the transform configuration in one behaviour
MaxCoord == 1          \* largest coordinate of a transform
MaxValidations == 2    \* validateTransforms / loadTransforms calls in one behaviour
MaxMounts == 2         \* runs of TruckModel's effect in one behaviour

(***************************************************************************)
(* Program constants.                                                      *)
(***************************************************************************)
DefaultMaxRetries == 3
BackoffUnitMs == 1000
TruckModelRetries == 3
PlaceholderRetries == 3
FramesToWait == 2

Errors == {"e1", "e2"}
Values == {"v1", "v2"}
Names == {<<"/", "g">>, <<"/", "t">>}

RECURSIVE Pow2(_)
Pow2(n) == IF n <= 0 THEN 1 ELSE 2 * Pow2(n - 1)

(***************************************************************************)
(* loadAssetWithRetry                                                      *)
(***************************************************************************)
NoResult == [type |-> "none", assetName |-> <<>>, attempts |-> 0,
             originalError |-> "undefined", value |-> <<>>]

\* new AssetLoadError(msg, { assetName, attempts: maxRetries, originalError: lastError })
\* `lastError!.message` is read while the message is built: with lastError
\* still undefined that read throws a TypeError instead.
ExhaustedError(name, maxRetries, lastError) ==
  IF lastError = "undefined"
  THEN [NoResult EXCEPT !.type = "TypeError"]
  ELSE [NoResult EXCEPT !.type = "AssetLoadError", !.assetName = name,
                        !.attempts = maxRetries, !.originalError = lastError]

Resolved(v) == [NoResult EXCEPT !.type = "value", !.value = <<v>>]

Ev(e, n, ms, x) == [ev |-> e, n |-> n, ms |-> ms, x |-> x]

\* maxRetries: number = 3
MaxRetriesOf(maxArg) == IF maxArg = <<>> THEN DefaultMaxRetries ELSE maxArg[1]

\* for (...; attempt < maxRetries; ...)
LoopCondOffByOne(attempt, maxRetries) == attempt <= maxRetries
LoopCond(attempt, maxRetries) == attempt < maxRetries

\* if (attempt < maxRetries - 1)
ShouldWait(attempt, maxRetries) == attempt < maxRetries - 1

\* const waitTime = Math.pow(2, attempt) * 1000
WaitTimeDoubled(attempt) == Pow2(attempt + 1) * BackoffUnitMs
WaitTime(attempt) == Pow2(attempt) * BackoffUnitMs

\* The delay the caller asked for: the argument after maxRetries, 1000 when absent.
RequestedBaseDelay == IF rExtra = <<>> THEN BackoffUnitMs ELSE rExtra[1]

(***************************************************************************)
(* AssetLoader: path resolution                                            *)
(***************************************************************************)
Slash == "/"

\* relativePath.startsWith('/')
StartsWithSlash(s) == Len(s) > 0 /\ s[1] = Slash

\* Index of the first "//" in s, 0 when there is none.
FirstDoubleSlash(s) ==
  LET I == {i \in 1..(Len(s) - 1) : s[i] = Slash /\ s[i + 1] = Slash}
  IN IF I = {} THEN 0 ELSE CHOOSE i \in I : \A j \in I : i <= j

\* s.replace('//', '/'): a string pattern replaces the first occurrence only.
ReplaceFirstDoubleSlash(s) ==
  LET i == FirstDoubleSlash(s)
  IN IF i = 0 THEN s ELSE SubSeq(s, 1, i) \o SubSeq(s, i + 2, Len(s))

\* AssetLoader.getAssetPath with this.config.basePath = basePath
getAssetPath(basePath, relativePath) ==
  LET normalizedPath == IF StartsWithSlash(relativePath)
                        THEN relativePath
                        ELSE <<Slash>> \o relativePath
  IN ReplaceFirstDoubleSlash(basePath \o normalizedPath)

\* sharedAssetLoader: createAssetLoader({ basePath: '/', useDraco: true, ... })
SharedBasePath == <<Slash>>

(***************************************************************************)
(* AssetLoader: loadGLB, loadTexture, the cache                            *)
(*                                                                         *)
(* Asset paths are abbreviated: <<"/", "g">> stands for the truck model    *)
(* (a path ending in .glb), <<"/", "f">> for the logo texture of the truck *)
(* front.                                                                  *)
(***************************************************************************)
TruckPath == <<Slash, "g">>
LogoFrontPath == <<Slash, "f">>

\* path.endsWith('.glb') || path.endsWith('.gltf')
EndsWithGlb(path) == Len(path) > 0 /\ path[Len(path)] = "g"

has(key) == key \in DOMAIN loadedAssets

\* A promise returned by loadGLB / loadTexture.
\*   after: what the latest load of the same key that had resolved, with no
\*   clearCache since, had returned (0 if none); stale: clearCache ran after
\*   the call.  Both are history, read by no operation.
Call(lv, op, key, owner, st, fetched, val) ==
  [op |-> op, key |-> key, owner |-> owner, st |-> st, fetched |-> fetched,
   val |-> val, err |-> "none", stale |-> FALSE,
   after |-> IF key \in DOMAIN lv THEN lv[key] ELSE 0]

\* An object: a THREE.Group (gltf.scene or a clone of one) or a THREE.Texture.
\* src is the fetch whose geometry, material and maps it references:
\* Object3D.clone() copies the nodes and shares geometry and material.
Inst(kind, src, textured) == [kind |-> kind, src |-> src, textured |-> textured]

KindOf(op) == IF op = "loadGLB" THEN "Group" ELSE "Texture"

\* What loadGLB returns on a cache hit: this.loadedAssets.get(fullPath).clone()
GLBHitSharesCached(is, cached) == [fresh |-> FALSE, val |-> cached]
GLBHit(is, cached) == [fresh |-> TRUE, val |-> Len(is) + 1]

\* What loadTexture returns on a cache hit: this.loadedAssets.get(fullPath)
TextureHit(is, cached) == [fresh |-> FALSE, val |-> cached]

\* if (this.loadedAssets.has(fullPath))
CacheCheck(key) == has(key)

\* loadGLB(path) / loadTexture(path) up to the point where the promise is
\* returned: the new values of calls and insts, and whether it was a hit.
Put(f, k, v) == [x \in DOMAIN f \cup {k} |-> IF x = k THEN v ELSE f[x]]

\* cs, is, lv: calls, insts and lastVal as the statements before this call left them.
Load(cs, is, lv, op, path, owner) ==
  LET key == getAssetPath(SharedBasePath, path) IN
  IF CacheCheck(key)
  THEN LET h == IF op = "loadGLB" THEN GLBHit(is, loadedAssets[key])
                ELSE TextureHit(is, loadedAssets[key])
       IN [hit |-> TRUE, val |-> h.val,
           lastVal |-> Put(lv, key, h.val),
           calls |-> Append(cs, Call(lv, op, key, owner, "resolved", FALSE, h.val)),
           insts |-> IF h.fresh
                     THEN Append(is, is[loadedAssets[key]])
                     ELSE is]
  ELSE [hit |-> FALSE, val |-> 0,
        lastVal |-> lv,
        calls |-> Append(cs, Call(lv, op, key, owner, "pending", TRUE, 0)),
        insts |-> is]

\* GPU resources reachable from an object.
Resources(id) ==
  IF insts[id].kind = "Texture"
  THEN {<<"texture", insts[id].src>>}
  ELSE {<<"geometry", insts[id].src>>, <<"material", insts[id].src>>}
       \cup (IF insts[id].textured THEN {<<"map", insts[id].src>>} ELSE {})

\* The forEach of clearCache: dispose() runs on a cached Texture, and on the
\* geometry and the material(s) of every Mesh of a cached Group.
\* Material.dispose() leaves the material's maps alone.
ClearDisposes(id) ==
  IF insts[id].kind = "Texture"
  THEN {<<"texture", insts[id].src>>}
  ELSE {<<"geometry", insts[id].src>>, <<"material", insts[id].src>>}

(***************************************************************************)
(* loadAssetWithRetry: the steps of the loop, on the locals of one call    *)
(***************************************************************************)
RState == [pc |-> rPc, attempt |-> rAttempt, lastError |-> rLastError,
           calls |-> rCalls, log |-> rLog, result |-> rResult]

SetR(R) ==
  /\ rPc' = R.pc
  /\ rAttempt' = R.attempt
  /\ rLastError' = R.lastError
  /\ rCalls' = R.calls
  /\ rLog' = R.log
  /\ rResult' = R.result

\* try { return await loadFn(); ...: loadFn is invoked
Begin(R) ==
  [R EXCEPT !.pc = "attempting", !.calls = R.calls + 1,
            !.log = Append(R.log, Ev("start", R.attempt + 1, 0, <<>>))]

\* return await loadFn(), loadFn's promise resolved with v
OnOkKeepsLooping(R, v) ==
  [R EXCEPT !.pc = "waiting",
            !.log = Append(R.log, Ev("ok", R.attempt + 1, 0, <<v>>))]
OnOk(R, v) ==
  [R EXCEPT !.pc = "resolved", !.result = Resolved(v),
            !.log = Append(R.log, Ev("ok", R.attempt + 1, 0, <<v>>))]

\* throw new AssetLoadError(...) after the loop
Throw(R, name, maxRetries) ==
  [R EXCEPT !.pc = "rejected",
            !.result = ExhaustedError(name, maxRetries, R.lastError)]

\* catch (error) { lastError = error; if (attempt < maxRetries - 1) await timeout }
\* "waiting" while the timer runs, "looping" when the catch block fell through
\* to the loop's attempt++.
OnFail(R, e, maxRetries) ==
  LET F == [R EXCEPT !.lastError = e,
                     !.log = Append(R.log, Ev("fail", R.attempt + 1, 0, <<e>>))]
  IN IF ShouldWait(R.attempt, maxRetries)
     THEN [F EXCEPT !.pc = "waiting",
                    !.log = Append(F.log, Ev("wait", R.attempt + 1, WaitTime(R.attempt), <<>>))]
     ELSE [F EXCEPT !.pc = "looping", !.attempt = R.attempt + 1]

\* The timer fired: attempt++ and back to the loop condition.
OnTimer(R) ==
  [R EXCEPT !.pc = "looping", !.attempt = R.attempt + 1,
            !.log = Append(R.log, Ev("woke", R.attempt + 1, 0, <<>>))]

\* The loop condition with R.pc = "looping": the next loadFn() call, or the throw.
\* loadFn is an arbitrary operation, or () => sharedAssetLoader.loadGLB(path).
EnterLoop(R, fn, name, maxRetries, cs) ==
  IF ~LoopCond(R.attempt, maxRetries)
  THEN SetR(Throw(R, name, maxRetries)) /\ calls' = cs /\ UNCHANGED <<insts, lastVal>>
  ELSE IF fn[1] = "operation"
  THEN SetR(Begin(R)) /\ calls' = cs /\ UNCHANGED <<insts, lastVal>>
  ELSE LET L == Load(cs, insts, lastVal, "loadGLB", fn[2], "retry") IN
       /\ Len(cs) < MaxLoads
       /\ calls' = L.calls
       /\ insts' = L.insts
       /\ lastVal' = L.lastVal
       /\ SetR(IF L.hit THEN OnOk(Begin(R), L.val) ELSE Begin(R))

\* What follows a failed attempt, up to the next await.
AfterFail(R, fn, name, maxRetries, cs) ==
  IF R.pc = "looping" THEN EnterLoop(R, fn, name, maxRetries, cs)
  ELSE SetR(R) /\ calls' = cs /\ UNCHANGED <<insts, lastVal>>

NewR == [pc |-> "looping", attempt |-> 0, lastError |-> "undefined",
         calls |-> 0, log |-> <<>>, result |-> NoResult]

(***************************************************************************)
(* Actions: loadAssetWithRetry                                             *)
(***************************************************************************)
restOfLoader == <<loadedAssets, disposed, glbTextured, leaked, pre, dracoLoader, lastOp>>

\* loadAssetWithRetry(loadFn, assetName, maxRetries?, ...extra) up to its first await
RetryCall(fn, name, maxArg, extra) ==
  /\ rPc = "idle"
  /\ rFn' = fn
  /\ rName' = name
  /\ rMax' = MaxRetriesOf(maxArg)
  /\ rExtra' = extra
  /\ EnterLoop(NewR, fn, name, MaxRetriesOf(maxArg), calls)
  /\ UNCHANGED <<restOfLoader, pathVars, decoderVars, appVars>>

\* loadFn's promise resolves with v; the function returns it
AttemptSucceeds(v) ==
  /\ rPc = "attempting"
  /\ rFn[1] = "operation"
  /\ SetR(OnOk(RState, v))
  /\ UNCHANGED <<rFn, rName, rMax, rExtra, loaderVars, pathVars, decoderVars, appVars>>

\* loadFn's promise rejects with e; the catch block runs up to the next await
AttemptFails(e) ==
  /\ rPc = "attempting"
  /\ rFn[1] = "operation"
  /\ AfterFail(OnFail(RState, e, rMax), rFn, rName, rMax, calls)
  /\ UNCHANGED <<rFn, rName, rMax, rExtra, restOfLoader, pathVars, decoderVars, appVars>>

\* setTimeout(resolve, waitTime) fires; the loop goes on up to the next await
TimerFires ==
  /\ rPc = "waiting"
  /\ EnterLoop(OnTimer(RState), rFn, rName, rMax, calls)
  /\ UNCHANGED <<rFn, rName, rMax, rExtra, restOfLoader, pathVars, decoderVars, appVars>>

MaxArgs == {<<>>} \cup {<<k>> : k \in (-1)..MaxRetriesBound}
ExtraArgs == {<<>>, <<500>>, <<2000>>}

RetryInit ==
  /\ rPc = "idle"
  /\ rFn = <<"operation">>
  /\ rName = <<>>
  /\ rMax = 0
  /\ rExtra = <<>>
  /\ rAttempt = 0
  /\ rLastError = "undefined"
  /\ rCalls = 0
  /\ rLog = <<>>
  /\ rResult = NoResult

(***************************************************************************)
(* Actions: AssetLoader                                                    *)
(***************************************************************************)
NoPreload == [st |-> "idle", paths |-> <<>>, ids |-> {}]

\* await Promise.all(promises): rejected with the first rejection, resolved
\* once every promise is.
PromiseAllWaitsForAll(cs, ids) ==
  IF \E i \in ids : cs[i].st = "pending" THEN "pending"
  ELSE IF \E i \in ids : cs[i].st = "rejected" THEN "rejected"
  ELSE "resolved"
PromiseAll(cs, ids) ==
  IF \E i \in ids : cs[i].st = "rejected" THEN "rejected"
  ELSE IF \A i \in ids : cs[i].st = "resolved" THEN "resolved"
  ELSE "pending"

\* How the preloadAssets promise stands once call table cs is in place.
PreloadAfter(cs) ==
  IF pre.st = "pending" THEN [pre EXCEPT !.st = PromiseAll(cs, pre.ids)] ELSE pre

\* paths.map(path => endsWith('.glb') ? this.loadGLB(path) : this.loadTexture(path))
PreloadStarts(paths) == paths

RECURSIVE LoadAll(_, _, _, _)
LoadAll(cs, is, lv, paths) ==
  IF paths = <<>> THEN [calls |-> cs, insts |-> is, lastVal |-> lv]
  ELSE LET L == Load(cs, is, lv,
                     IF EndsWithGlb(Head(paths)) THEN "loadGLB" ELSE "loadTexture",
                     Head(paths), "preload")
       IN LoadAll(L.calls, L.insts, L.lastVal, Tail(paths))

\* sharedAssetLoader.preloadAssets(paths) up to its await
preloadAssets(paths) ==
  /\ pre.st = "idle"
  /\ Len(calls) + Len(paths) <= MaxLoads
  /\ LET A == LoadAll(calls, insts, lastVal, PreloadStarts(paths))
         ids == (Len(calls) + 1)..Len(A.calls)
     IN /\ calls' = A.calls
        /\ insts' = A.insts
        /\ lastVal' = A.lastVal
        /\ pre' = [st |-> PromiseAll(A.calls, ids), paths |-> paths, ids |-> ids]
  /\ UNCHANGED <<loadedAssets, disposed, glbTextured, leaked, dracoLoader, lastOp>>
  /\ UNCHANGED <<retryVars, pathVars, decoderVars, appVars>>

\* sharedAssetLoader.loadTexture(path).then(...).catch(console.error):
\* applyLogoMaterial and FuelSensor
ConsumerLoadTexture(path) ==
  /\ Len(calls) < MaxLoads
  /\ LET L == Load(calls, insts, lastVal, "loadTexture", path, "consumer")
     IN calls' = L.calls /\ insts' = L.insts /\ lastVal' = L.lastVal
  /\ UNCHANGED <<restOfLoader, retryVars, pathVars, decoderVars, appVars>>

Settle(c, st, val, err) ==
  [calls EXCEPT ![c].st = st, ![c].val = val, ![c].err = err]

IsCurrentAttempt(c) == calls[c].owner = "retry" /\ rPc = "attempting"

\* The loader's onLoad callback of call c: cache the object, resolve the promise;
\* then whatever awaits the promise runs.
FetchSucceeds(c) ==
  /\ c \in DOMAIN calls
  /\ calls[c].st = "pending"
  /\ LET id == Len(insts) + 1
         cs == Settle(c, "resolved", id, "none")
     IN /\ insts' = Append(insts, Inst(KindOf(calls[c].op), c, calls[c].op = "loadGLB" /\ glbTextured))
        /\ loadedAssets' = Put(loadedAssets, calls[c].key, id)
        /\ lastVal' = Put(lastVal, calls[c].key, id)
        /\ calls' = cs
        /\ pre' = PreloadAfter(cs)
        /\ IF IsCurrentAttempt(c)
           THEN SetR(OnOk(RState, id))
           ELSE UNCHANGED <<rPc, rAttempt, rLastError, rCalls, rLog, rResult>>
  /\ lastOp' = "onLoad"
  /\ UNCHANGED <<disposed, glbTextured, leaked, dracoLoader>>
  /\ UNCHANGED <<rFn, rName, rMax, rExtra, pathVars, decoderVars, appVars>>

\* The loader's onError callback of call c: reject the promise; then whatever
\* awaits the promise runs.
FetchFails(c, e) ==
  /\ c \in DOMAIN calls
  /\ calls[c].st = "pending"
  /\ LET cs == Settle(c, "rejected", 0, e)
     IN /\ pre' = PreloadAfter(cs)
        /\ IF IsCurrentAttempt(c)
           THEN AfterFail(OnFail(RState, e, rMax), rFn, rName, rMax, cs)
           ELSE /\ calls' = cs
                /\ UNCHANGED <<insts, lastVal, rPc, rAttempt, rLastError, rCalls, rLog, rResult>>
  /\ UNCHANGED <<loadedAssets, disposed, glbTextured, leaked, dracoLoader, lastOp>>
  /\ UNCHANGED <<rFn, rName, rMax, rExtra, pathVars, decoderVars, appVars>>

Cached == {loadedAssets[k] : k \in DOMAIN loadedAssets}

\* The body of clearCache on the loader's variables.
clearCacheBody ==
  LET d == disposed \cup UNION {ClearDisposes(id) : id \in Cached} IN
  /\ disposed' = d
  /\ leaked' = leaked \cup (UNION {Resources(id) : id \in Cached} \ d)
  /\ loadedAssets' = << >>
  /\ lastVal' = << >>

\* sharedAssetLoader.clearCache()
clearCache ==
  /\ clearCacheBody
  /\ calls' = [i \in DOMAIN calls |-> [calls[i] EXCEPT !.stale = TRUE]]
  /\ lastOp' = "clearCache"
  /\ UNCHANGED <<insts, glbTextured, pre, dracoLoader>>
  /\ UNCHANGED <<retryVars, pathVars, decoderVars, appVars>>

\* sharedAssetLoader.dispose()
dispose ==
  /\ clearCacheBody
  /\ calls' = [i \in DOMAIN calls |-> [calls[i] EXCEPT !.stale = TRUE]]
  /\ dracoLoader' = "null"
  /\ lastOp' = "dispose"
  /\ UNCHANGED <<insts, glbTextured, pre>>
  /\ UNCHANGED <<retryVars, pathVars, decoderVars, appVars>>

\* new AssetLoader({ basePath: '/', useDraco: true, ... })
LoaderFresh ==
  /\ calls = << >>
  /\ insts = << >>
  /\ loadedAssets = << >>
  /\ disposed = {}
  /\ leaked = {}
  /\ lastVal = << >>
  /\ pre = NoPreload
  /\ dracoLoader = "set"
  /\ lastOp = "constructor"

LoaderInit == LoaderFresh /\ glbTextured \in BOOLEAN

LoaderIdle == LoaderFresh /\ glbTextured = FALSE

(***************************************************************************)
(* getAssetPath as a function of its two inputs                            *)
(***************************************************************************)
PathChars == {Slash, "a"}

SeqsUpTo(n) == UNION {[1..k -> PathChars] : k \in 0..n}

PathInit ==
  /\ pBase \in SeqsUpTo(MaxBaseLen)
  /\ pRel \in SeqsUpTo(MaxPathLen)
  /\ pOut = << >>

PathIdle ==
  /\ pBase = << >>
  /\ pRel = << >>
  /\ pOut = << >>

\* new AssetLoader({ basePath: pBase, ... }).getAssetPath(pRel)
ResolvePath ==
  /\ pOut = << >>
  /\ pOut' = <<getAssetPath(pBase, pRel)>>
  /\ UNCHANGED <<pBase, pRel, retryVars, loaderVars, decoderVars, appVars>>

(***************************************************************************)
(* LazyDecoderLoader                                                       *)
(***************************************************************************)
DecoderConfigs == {"cfgA", "cfgB"}

\* private constructor(config).  dracoLoader and initPromise are 0 for null,
\* otherwise an object of dracos / proms.
NewManager(config) ==
  [config |-> config, dracoLoader |-> 0, initPromise |-> 0, initialized |-> FALSE]

\* static getInstance(config?): cfgArg is << >> when the argument is omitted.
\* dReturned is the object the call returned (0 when it threw).
getInstance(cfgArg) ==
  /\ IF instance = 0
     THEN IF cfgArg = << >>
          THEN \* throw new Error('LazyDecoderLoader: config required ...')
               /\ dThrown' = "Error"
               /\ dReturned' = [had |-> instance, got |-> 0]
               /\ UNCHANGED <<instance, mgrs>>
          ELSE /\ Len(mgrs) < MaxManagers
               /\ mgrs' = Append(mgrs, NewManager(cfgArg[1]))
               /\ instance' = Len(mgrs) + 1
               /\ dReturned' = [had |-> instance, got |-> Len(mgrs) + 1]
               /\ dThrown' = "none"
     ELSE /\ dThrown' = "none"
          /\ dReturned' = [had |-> instance, got |-> instance]
          /\ UNCHANGED <<instance, mgrs>>
  /\ UNCHANGED <<proms, initCalls, bootstraps, dracos>>
  /\ UNCHANGED <<retryVars, loaderVars, pathVars, appVars>>

\* The state of a manager, from its fields.
MgrState(mgr) ==
  IF mgr.initialized THEN "Ready"
  ELSE IF mgr.initPromise # 0 THEN "Initializing"
  ELSE "Uninitialized"

\* if (this.initPromise) return this.initPromise
InFlightIgnored(mgr) == FALSE
InFlight(mgr) == mgr.initPromise # 0

\* A promise whose rejection the awaiting initializeDecoders() has not yet
\* processed: its continuation is a queued microtask.
Unprocessed == {p \in DOMAIN proms : proms[p].st = "rejected" /\ ~proms[p].handled}

\* Whether any earlier initializeDecoders() call on m, since m's last dispose(),
\* has settled.  Of a call: stale, its manager was disposed after it; early, no
\* call on the manager had settled when it was made; fresh, the manager had not
\* been disposed under a call when it was made; state, the manager's state when
\* it was made (all history).
SettledOn(m) ==
  \E i \in DOMAIN initCalls :
    /\ initCalls[i].mgr = m
    /\ ~initCalls[i].stale
    /\ initCalls[i].st # "pending"

InitCall(m, prom, st) ==
  [mgr |-> m, prom |-> prom, st |-> st, stale |-> FALSE,
   early |-> ~SettledOn(m),
   fresh |-> ~\E i \in DOMAIN initCalls : initCalls[i].mgr = m /\ initCalls[i].stale,
   state |-> MgrState(mgrs[m])]

\* What performInitialization leaves in this.dracoLoader: the executor runs
\* synchronously; a throw of new DRACOLoader() ("ctor") leaves the field as it
\* was, a throw of a later statement of the try block ("late") leaves the new
\* loader in it.
BootstrapLoader(mgr, how, fresh) == IF how = "ctor" THEN mgr.dracoLoader ELSE fresh

\* initializeDecoders() on object m, up to its await.  `how` is what
\* performInitialization meets when it runs: "ok", "ctor" or "late".
initializeDecoders(m, how) ==
  /\ m \in DOMAIN mgrs
  /\ Len(initCalls) < MaxInitCalls
  /\ IF mgrs[m].initialized
     THEN /\ initCalls' = Append(initCalls, InitCall(m, 0, "resolved"))
          /\ UNCHANGED <<mgrs, proms, bootstraps, dracos>>
     ELSE IF InFlight(mgrs[m])
     THEN /\ initCalls' = Append(initCalls, InitCall(m, mgrs[m].initPromise, "pending"))
          /\ UNCHANGED <<mgrs, proms, bootstraps, dracos>>
     ELSE LET p == Len(proms) + 1
              fresh == Len(dracos) + 1
          IN /\ bootstraps' = bootstraps + 1
             /\ proms' = Append(proms, [mgr |-> m, handled |-> FALSE,
                                        st |-> IF how = "ok" THEN "pending" ELSE "rejected"])
             /\ dracos' = IF how = "ctor" THEN dracos
                          ELSE Append(dracos, [owner |-> m, live |-> TRUE])
             /\ mgrs' = [mgrs EXCEPT ![m].dracoLoader = BootstrapLoader(mgrs[m], how, fresh),
                                     ![m].initPromise = p]
             /\ initCalls' = Append(initCalls, InitCall(m, p, "pending"))
  /\ UNCHANGED <<instance, dThrown, dReturned>>
  /\ UNCHANGED <<retryVars, loaderVars, pathVars, appVars>>

SettleCalls(p, st) ==
  [i \in DOMAIN initCalls |->
     IF initCalls[i].prom = p THEN [initCalls[i] EXCEPT !.st = st] ELSE initCalls[i]]

\* requestIdleCallback / setTimeout fires: the promise resolves, the call that
\* awaits it sets this.initialized = true, and every call returning it resolves.
\* A timer callback runs only when the microtask queue is empty.
IdleCallback(p) ==
  /\ p \in DOMAIN proms
  /\ proms[p].st = "pending"
  /\ Unprocessed = {}
  /\ proms' = [proms EXCEPT ![p].st = "resolved", ![p].handled = TRUE]
  /\ mgrs' = [mgrs EXCEPT ![proms[p].mgr].initialized = TRUE]
  /\ initCalls' = SettleCalls(p, "resolved")
  /\ UNCHANGED <<instance, bootstraps, dThrown, dReturned, dracos>>
  /\ UNCHANGED <<retryVars, loaderVars, pathVars, appVars>>

\* The await of a rejected initPromise throws:
\* catch (error) { this.initPromise = null; throw error }
AwaitThrows(p) ==
  /\ p \in Unprocessed
  /\ proms' = [proms EXCEPT ![p].handled = TRUE]
  /\ mgrs' = [mgrs EXCEPT ![proms[p].mgr].initPromise = 0]
  /\ initCalls' = SettleCalls(p, "rejected")
  /\ UNCHANGED <<instance, bootstraps, dThrown, dReturned, dracos>>
  /\ UNCHANGED <<retryVars, loaderVars, pathVars, appVars>>

\* getDracoLoader() on a manager with fields mgr: what it throws, or the
\* loader it returns.
getDracoLoader(mgr) ==
  IF mgr.dracoLoader = 0
  THEN [thrown |-> "Error", handle |-> 0]
  ELSE [thrown |-> "none", handle |-> mgr.dracoLoader]

\* isInitialized()
isInitialized(mgr) == mgr.initialized

\* dispose() on object m
disposeDecoders(m) ==
  /\ m \in DOMAIN mgrs
  /\ dracos' = IF mgrs[m].dracoLoader = 0 THEN dracos
               ELSE [dracos EXCEPT ![mgrs[m].dracoLoader].live = FALSE]
  /\ mgrs' = [mgrs EXCEPT ![m].dracoLoader = 0, ![m].initialized = FALSE,
                          ![m].initPromise = 0]
  /\ instance' = 0
  /\ initCalls' = [i \in DOMAIN initCalls |->
                     IF initCalls[i].mgr = m THEN [initCalls[i] EXCEPT !.stale = TRUE]
                     ELSE initCalls[i]]
  /\ UNCHANGED <<proms, bootstraps, dThrown, dReturned>>
  /\ UNCHANGED <<retryVars, loaderVars, pathVars, appVars>>

DecoderInit ==
  /\ instance = 0
  /\ mgrs = << >>
  /\ proms = << >>
  /\ initCalls = << >>
  /\ bootstraps = 0
  /\ dThrown = "none"
  /\ dReturned = [had |-> 0, got |-> 0]
  /\ dracos = << >>

(***************************************************************************)
(* loadGLBWithPlaceholder                                                  *)
(***************************************************************************)
\* The call: st is how the returned `model` promise stands; before is
\* scene.children.length when the function was entered, attemptsAtAdd the number
\* of load attempts started when the placeholder was added, removals the number
\* of times scene.remove took the placeholder out, disposedParts the placeholder
\* resources dispose() ran on (history, but for st and result).
NoPlaceholder == [st |-> "idle", before |-> 0, attemptsAtAdd |-> 0,
                  removals |-> 0, disposedParts |-> {}, result |-> << >>]

\* createPlaceholderModel: a Group of a body, a cab and four wheels; the wheels
\* share one geometry and one material.
PlaceholderGroup == "placeholder-truck"
PlaceholderMeshes ==
  {[name |-> <<"placeholder-body">>, geometry |-> "bodyGeometry", material |-> "bodyMaterial"],
   [name |-> <<"placeholder-cab">>, geometry |-> "cabGeometry", material |-> "cabMaterial"]}
  \cup {[name |-> <<"placeholder-wheel", i>>, geometry |-> "wheelGeometry",
         material |-> "wheelMaterial"] : i \in 0..3}

PlaceholderResources ==
  {m.geometry : m \in PlaceholderMeshes} \cup {m.material : m \in PlaceholderMeshes}

\* placeholder.traverse(child => child.geometry?.dispose(); child.material?.dispose())
TraverseDispose == UNION {{m.geometry, m.material} : m \in PlaceholderMeshes}

\* scene.add(object): Object3D.add appends to children
SceneAdd(ch, object) == Append(ch, object)

\* scene.remove(object): Object3D.remove splices the object out if it is a child
SceneRemove(ch, object) == SelectSeq(ch, LAMBDA c : c # object)

IsChild(ch, object) == \E i \in DOMAIN ch : ch[i] = object

\* .catch(error => { console.warn(...); throw error }): the scene as the
\* rejection handler leaves it
OnLoadFailedRemoves(ch) == SceneRemove(ch, PlaceholderGroup)
OnLoadFailed(ch) == ch

\* loadGLBWithPlaceholder(sharedAssetLoader, path, scene) up to its return: the
\* placeholder is added, then loadAssetWithRetry(() => loader.loadGLB(path), path, 3)
\* runs up to its first await.
loadGLBWithPlaceholder(path) ==
  /\ ph.st = "idle"
  /\ rPc = "idle"
  /\ children' = SceneAdd(children, PlaceholderGroup)
  /\ ph' = [ph EXCEPT !.st = "pending", !.before = Len(children), !.attemptsAtAdd = rCalls]
  /\ rFn' = <<"loadGLB", path>>
  /\ rName' = path
  /\ rMax' = MaxRetriesOf(<<PlaceholderRetries>>)
  /\ rExtra' = << >>
  /\ EnterLoop(NewR, <<"loadGLB", path>>, path, MaxRetriesOf(<<PlaceholderRetries>>), calls)
  /\ UNCHANGED <<restOfLoader, pathVars, decoderVars, sceneVars, transformVars, validateVars, truckVars>>

\* .then(realModel => { scene.remove(placeholder); placeholder.traverse(dispose);
\* return realModel })
PlaceholderThen ==
  /\ ph.st = "pending"
  /\ rPc = "resolved"
  /\ children' = SceneRemove(children, PlaceholderGroup)
  /\ ph' = [ph EXCEPT !.st = "resolved",
                      !.removals = ph.removals + (IF IsChild(children, PlaceholderGroup) THEN 1 ELSE 0),
                      !.disposedParts = ph.disposedParts \cup TraverseDispose,
                      !.result = rResult.value]
  /\ UNCHANGED <<retryVars, loaderVars, pathVars, decoderVars, sceneVars, transformVars, validateVars, truckVars>>

\* .catch(error => { ...; throw error })
PlaceholderCatch ==
  /\ ph.st = "pending"
  /\ rPc = "rejected"
  /\ children' = OnLoadFailed(children)
  /\ ph' = [ph EXCEPT !.st = "rejected", !.result = <<rResult.type>>]
  /\ UNCHANGED <<retryVars, loaderVars, pathVars, decoderVars, sceneVars, transformVars, validateVars, truckVars>>

PlaceholderIdle == ph = NoPlaceholder /\ children = << >>

\* A scene with or without other children when the function is called.
PlaceholderInit == ph = NoPlaceholder /\ children \in {<< >>, <<"light">>}

(***************************************************************************)
(* SceneInitializer                                                        *)
(***************************************************************************)
\* constructor: this.state = { cssLoaded: false, ... }; this.transforms = null.
\* op is "reset" when reset() was the last method that ran, else "other" (history).
NewState ==
  [cssLoaded |-> FALSE, assetsLoaded |-> FALSE, sceneReady |-> FALSE,
   renderingStarted |-> FALSE]

NewSceneInitializer == [state |-> NewState, transforms |-> "null", op |-> "other"]

Touched(x) == [x EXCEPT !.op = "other"]

\* waitForDocumentReady(): with the document complete it waits for one animation
\* frame ("ready"), otherwise for the load event ("load") and then for one frame.
FirstStep(rs) == IF rs = "complete" THEN "ready" ELSE "load"

\* A waitForCSS() call.  owner: 0 for a direct call, k for the k-th
\* initializeScene() call, -1 for App's initScene.  left: iterations left of
\* waitForFrames.  frames: animation frames delivered to the call since the
\* document was ready; sawLoad: the call waited for the load event (history).
StartWait(rs, owner) ==
  [pc |-> FirstStep(rs), owner |-> owner, left |-> 0, frames |-> 0, sawLoad |-> rs # "complete"]

\* The call after one requestAnimationFrame callback of its own ran.
AfterFrame(w) ==
  IF w.pc = "ready"
  THEN \* waitForDocumentReady resolved; waitForFrames(2) enters its loop
       IF FramesToWait > 0
       THEN [w EXCEPT !.pc = "frames", !.left = FramesToWait, !.frames = w.frames + 1]
       ELSE [w EXCEPT !.pc = "done", !.frames = w.frames + 1]
  ELSE IF w.left > 1
       THEN [w EXCEPT !.left = w.left - 1, !.frames = w.frames + 1]
       ELSE [w EXCEPT !.pc = "done", !.left = 0, !.frames = w.frames + 1]

\* this.state.cssLoaded once the call stands as w
CssLoadedEarly(cur, w) == TRUE
CssLoadedAfter(cur, w) == cur \/ w.pc = "done"

\* initializeScene() after its check of cssLoaded: new THREE.Scene(), background,
\* fog, this.state.sceneReady = true.  cssAtConstruct records the flag at that
\* moment (history).
ConstructScene(call, state) ==
  [call EXCEPT !.st = "done", !.cssAtConstruct = state.cssLoaded]

\* this.state.sceneReady = true
SceneReadyFromScratch(state) == [NewState EXCEPT !.cssLoaded = TRUE, !.sceneReady = TRUE]
SceneReady(state) == [state EXCEPT !.sceneReady = TRUE]

\* if (!this.state.cssLoaded) await this.waitForCSS()
SkipsCssWait(state) == TRUE
NeedsNoWait(state) == state.cssLoaded

\* waitForCSS() called directly, up to its first await
waitForCSS ==
  /\ Len(waits) < MaxWaits
  /\ waits' = Append(waits, StartWait(readyState, 0))
  /\ si' = Touched(si)
  /\ UNCHANGED <<readyState, sceneCalls, tfetches, app>>
  /\ UNCHANGED <<retryVars, loaderVars, pathVars, decoderVars, placeholderVars, transformVars, validateVars, truckVars>>

\* initializeScene(), up to its await or, with CSS loaded, to its return
initializeScene ==
  /\ Len(sceneCalls) < MaxSceneCalls
  /\ IF NeedsNoWait(si.state)
     THEN /\ sceneCalls' = Append(sceneCalls,
                ConstructScene([st |-> "waiting", waited |-> FALSE, cssAtConstruct |-> FALSE],
                               si.state))
          /\ si' = [Touched(si) EXCEPT !.state = SceneReady(si.state)]
          /\ UNCHANGED waits
     ELSE /\ Len(waits) < MaxWaits
          /\ sceneCalls' = Append(sceneCalls,
                [st |-> "waiting", waited |-> TRUE, cssAtConstruct |-> FALSE])
          /\ waits' = Append(waits, StartWait(readyState, Len(sceneCalls) + 1))
          /\ si' = Touched(si)
  /\ UNCHANGED <<readyState, tfetches, app>>
  /\ UNCHANGED <<retryVars, loaderVars, pathVars, decoderVars, placeholderVars, transformVars, validateVars, truckVars>>

\* The window's load event: the document is complete, and every listener
\* waitForDocumentReady registered asks for an animation frame.
LoadEvent ==
  /\ readyState = "loading"
  /\ readyState' = "complete"
  /\ waits' = [i \in DOMAIN waits |->
                 IF waits[i].pc = "load" THEN [waits[i] EXCEPT !.pc = "ready"] ELSE waits[i]]
  /\ UNCHANGED <<si, sceneCalls, tfetches, app>>
  /\ UNCHANGED <<retryVars, loaderVars, pathVars, decoderVars, placeholderVars, transformVars, validateVars, truckVars>>

\* What follows the completion of wait w in the same microtask run:
\* waitForCSS sets cssLoaded; an awaiting initializeScene() constructs the scene;
\* App's initScene goes on to initializeScene() if still mounted.
AfterWait(w, nw) ==
  LET css == [si.state EXCEPT !.cssLoaded = CssLoadedAfter(si.state.cssLoaded, nw)]
      done == nw.pc = "done"
  IN IF done /\ nw.owner > 0
     THEN /\ sceneCalls' = [sceneCalls EXCEPT ![nw.owner] = ConstructScene(sceneCalls[nw.owner], css)]
          /\ si' = [Touched(si) EXCEPT !.state = SceneReady(css)]
          /\ UNCHANGED app
     ELSE IF done /\ nw.owner = -1 /\ app.mounted
     THEN /\ sceneCalls' = Append(sceneCalls,
                ConstructScene([st |-> "waiting", waited |-> FALSE, cssAtConstruct |-> FALSE], css))
          /\ si' = [Touched(si) EXCEPT !.state = SceneReady(css)]
          /\ app' = [app EXCEPT !.pc = "sceneUp"]
     ELSE /\ si' = [si EXCEPT !.state = css, !.op = IF done THEN "other" ELSE si.op]
          /\ UNCHANGED <<sceneCalls, app>>

\* A requestAnimationFrame callback of wait w runs.
FrameCallback(w) ==
  /\ w \in DOMAIN waits
  /\ waits[w].pc \in {"ready", "frames"}
  /\ waits' = [waits EXCEPT ![w] = AfterFrame(waits[w])]
  /\ AfterWait(w, AfterFrame(waits[w]))
  /\ UNCHANGED <<readyState, tfetches>>
  /\ UNCHANGED <<retryVars, loaderVars, pathVars, decoderVars, placeholderVars, transformVars, validateVars, truckVars>>

markAssetsLoaded ==
  /\ si' = [Touched(si) EXCEPT !.state.assetsLoaded = TRUE]
  /\ UNCHANGED <<readyState, waits, sceneCalls, tfetches, app>>
  /\ UNCHANGED <<retryVars, loaderVars, pathVars, decoderVars, placeholderVars, transformVars, validateVars, truckVars>>

markRenderingStarted ==
  /\ si' = [Touched(si) EXCEPT !.state.renderingStarted = TRUE]
  /\ UNCHANGED <<readyState, waits, sceneCalls, tfetches, app>>
  /\ UNCHANGED <<retryVars, loaderVars, pathVars, decoderVars, placeholderVars, transformVars, validateVars, truckVars>>

\* isReadyForRendering()
isReadyForRendering(state) == state.cssLoaded /\ state.sceneReady /\ state.assetsLoaded

\* reset()
reset ==
  /\ si' = [state |-> NewState, transforms |-> "null", op |-> "reset"]
  /\ UNCHANGED <<readyState, waits, sceneCalls, tfetches, app>>
  /\ UNCHANGED <<retryVars, loaderVars, pathVars, decoderVars, placeholderVars, transformVars, validateVars, truckVars>>

\* loadTransforms(), up to its first await: the memoized object, or a fetch of
\* the configuration.  validateTransforms() with validation enabled calls it
\* when this.transforms is not set, and compares otherwise.
StartFetch(fs) == Append(fs, [st |-> "pending"])

loadTransforms ==
  /\ IF si.transforms # "null"
     THEN UNCHANGED tfetches
     ELSE Len(tfetches) < MaxFetches /\ tfetches' = StartFetch(tfetches)
  /\ si' = Touched(si)
  /\ UNCHANGED <<readyState, waits, sceneCalls, app>>
  /\ UNCHANGED <<retryVars, loaderVars, pathVars, decoderVars, placeholderVars, transformVars, validateVars, truckVars>>

validateTransforms ==
  /\ IF si.transforms # "null"
     THEN UNCHANGED tfetches
     ELSE Len(tfetches) < MaxFetches /\ tfetches' = StartFetch(tfetches)
  /\ si' = Touched(si)
  /\ UNCHANGED <<readyState, waits, sceneCalls, app>>
  /\ UNCHANGED <<retryVars, loaderVars, pathVars, decoderVars, placeholderVars, transformVars, validateVars, truckVars>>

\* The fetch f settles: this.transforms = await response.json(), or the throw
\* on !response.ok / a network error.
TransformsFetched(f, ok) ==
  /\ f \in DOMAIN tfetches
  /\ tfetches[f].st = "pending"
  /\ tfetches' = [tfetches EXCEPT ![f].st = IF ok THEN "ok" ELSE "failed"]
  /\ si' = [Touched(si) EXCEPT !.transforms = IF ok THEN "loaded" ELSE si.transforms]
  /\ UNCHANGED <<readyState, waits, sceneCalls, app>>
  /\ UNCHANGED <<retryVars, loaderVars, pathVars, decoderVars, placeholderVars, transformVars, validateVars, truckVars>>

\* App's effect.  pc: "none", "waitingCSS" (initScene awaits waitForCSS),
\* "sceneUp" (initializeScene returned), "loadingTruck" (TruckModel mounted and
\* loading), "truckLoaded" (its onLoad ran).
NoApp == [pc |-> "none", mounted |-> FALSE]

\* initScene(): createSceneInitializer(...); await sceneInitializer.waitForCSS()
AppInitScene ==
  /\ app.pc = "none"
  /\ Len(waits) < MaxWaits
  /\ si' = NewSceneInitializer
  /\ waits' = Append(waits, StartWait(readyState, -1))
  /\ app' = [pc |-> "waitingCSS", mounted |-> TRUE]
  /\ UNCHANGED <<readyState, sceneCalls, tfetches>>
  /\ UNCHANGED <<retryVars, loaderVars, pathVars, decoderVars, placeholderVars, transformVars, validateVars, truckVars>>

\* The effect's cleanup: mounted = false (TruckModel's cleanup does the same)
AppUnmount ==
  /\ app.mounted
  /\ app' = [app EXCEPT !.mounted = FALSE]
  /\ UNCHANGED <<si, readyState, waits, sceneCalls, tfetches>>
  /\ UNCHANGED <<retryVars, loaderVars, pathVars, decoderVars, placeholderVars, transformVars, validateVars, truckVars>>

\* <TruckModel> is rendered once the scene is up: its effect starts
\* loadAssetWithRetry(() => sharedAssetLoader.loadGLB(modelPath), modelPath, 3)
AppMountTruck ==
  /\ app.pc = "sceneUp"
  /\ app.mounted
  /\ rPc = "idle"
  /\ app' = [app EXCEPT !.pc = "loadingTruck"]
  /\ rFn' = <<"loadGLB", TruckPath>>
  /\ rName' = TruckPath
  /\ rMax' = MaxRetriesOf(<<TruckModelRetries>>)
  /\ rExtra' = << >>
  /\ EnterLoop(NewR, <<"loadGLB", TruckPath>>, TruckPath, MaxRetriesOf(<<TruckModelRetries>>), calls)
  /\ UNCHANGED <<si, readyState, waits, sceneCalls, tfetches>>
  /\ UNCHANGED <<restOfLoader, pathVars, decoderVars, placeholderVars, transformVars, validateVars, truckVars>>

\* TruckModel's load resolved with the component mounted: App's onLoad runs
\* sceneInitializerRef.current.validateTransforms('truck', model)
AppTruckOnLoad ==
  /\ app.pc = "loadingTruck"
  /\ app.mounted
  /\ rPc = "resolved"
  /\ app' = [app EXCEPT !.pc = "truckLoaded"]
  /\ IF si.transforms # "null"
     THEN UNCHANGED tfetches
     ELSE Len(tfetches) < MaxFetches /\ tfetches' = StartFetch(tfetches)
  /\ si' = Touched(si)
  /\ UNCHANGED <<readyState, waits, sceneCalls>>
  /\ UNCHANGED <<retryVars, loaderVars, pathVars, decoderVars, placeholderVars, transformVars, validateVars, truckVars>>

SceneFresh ==
  /\ si = NewSceneInitializer
  /\ waits = << >>
  /\ sceneCalls = << >>
  /\ tfetches = << >>
  /\ app = NoApp

SceneIdle == SceneFresh /\ readyState = "loading"

\* createSceneInitializer(), before or after the document finished loading
SceneInit == SceneFresh /\ readyState \in {"loading", "complete"}

(***************************************************************************)
(* applyTransforms                                                         *)
(***************************************************************************)
\* An ObjectTransform: position and rotation are triples; scale is a number,
\* <<"number", k>>, or a triple, <<"vec3", v>>.
Vec3s == {<<x, y, z>> : x \in 0..MaxCoord, y \in 0..MaxCoord, z \in 0..MaxCoord}
Scales == {<<"number", k>> : k \in 1..(MaxCoord + 1)} \cup {<<"vec3", v>> : v \in Vec3s}
ObjectTransforms == [position : Vec3s, rotation : Vec3s, scale : Scales]

\* A new Object3D: position 0, rotation 0, scale 1
NewObject3D == [position |-> <<0, 0, 0>>, rotation |-> <<0, 0, 0>>, scale |-> <<1, 1, 1>>]

\* typeof transforms.scale === 'number'
\*   ? object.scale.set(scale, scale, scale) : object.scale.set(...scale)
ScaleArgs(scale) ==
  IF scale[1] = "number" THEN <<scale[2], scale[2], scale[2]>> ELSE scale[2]

\* The set() calls of applyTransforms, in the order of its statements
WritesScaleFirst(transforms) ==
  << [attr |-> "scale", args |-> ScaleArgs(transforms.scale)],
     [attr |-> "position", args |-> transforms.position],
     [attr |-> "rotation", args |-> transforms.rotation] >>
Writes(transforms) ==
  << [attr |-> "position", args |-> transforms.position],
     [attr |-> "rotation", args |-> transforms.rotation],
     [attr |-> "scale", args |-> ScaleArgs(transforms.scale)] >>

\* object.<attr>.set(...args)
RECURSIVE Perform(_, _)
Perform(object, writes) ==
  IF writes = << >> THEN object
  ELSE Perform([object EXCEPT ![Head(writes).attr] = Head(writes).args], Tail(writes))

\* applyTransforms(object, transforms): xf.log is the sequence of set() calls
\* made on the object.
applyTransforms ==
  /\ ~xf.applied
  /\ xf' = [xf EXCEPT !.applied = TRUE,
                      !.log = xf.log \o Writes(xf.transforms),
                      !.object = Perform(xf.object, Writes(xf.transforms))]
  /\ UNCHANGED <<retryVars, loaderVars, pathVars, decoderVars, placeholderVars, sceneVars, validateVars, truckVars>>

NoTransform ==
  [transforms |-> [position |-> <<0, 0, 0>>, rotation |-> <<0, 0, 0>>, scale |-> <<"number", 1>>],
   object |-> NewObject3D, log |-> << >>, applied |-> FALSE]

TransformIdle == xf = NoTransform

\* An object and the transform configuration applyTransforms is called with
TransformInit ==
  \E t \in ObjectTransforms :
    xf = [transforms |-> t, object |-> NewObject3D, log |-> << >>, applied |-> FALSE]

(***************************************************************************)
(* validateTransforms and TransformValidator.validateAgainstConfig         *)
(***************************************************************************)
\* A JavaScript number: k units of length, or NaN
Num(k) == [nan |-> FALSE, v |-> k]
NaN == [nan |-> TRUE, v |-> 0]

\* Math.abs(a - b)
AbsDiff(a, b) ==
  IF a.nan \/ b.nan THEN NaN
  ELSE Num(IF a.v >= b.v THEN a.v - b.v ELSE b.v - a.v)

\* a > b and a <= b: both are false when an operand is NaN
Gt(a, b) == ~a.nan /\ ~b.nan /\ a.v > b.v
Le(a, b) == ~a.nan /\ ~b.nan /\ a.v <= b.v

\* const result = { valid: true, errors: [], warnings: [] }
NewResult == [valid |-> TRUE, errors |-> << >>, warnings |-> << >>]

\* [Math.abs(object.position.x - expected[0]), ...]
Diffs(actual, expected) == [i \in 1..3 |-> AbsDiff(actual[i], expected[i])]

\* diffs.some(diff => diff > tolerance)
SomeOver(diffs, tolerance) == \E i \in 1..3 : Gt(diffs[i], tolerance)

\* typeof expectedTransforms.scale === 'number' ? [scale, scale, scale] : scale
ExpectedScale(scale) ==
  IF scale[1] = "number" THEN <<scale[2], scale[2], scale[2]>> ELSE scale[2]

\* result.valid = false; result.errors.push(`<what> mismatch for ...`)
Mismatch(result, what) ==
  [result EXCEPT !.valid = FALSE, !.errors = Append(result.errors, what)]

\* The three comparisons of validateTransforms, in the order of its statements
CheckAttr(result, what, actual, expected, tolerance) ==
  IF SomeOver(Diffs(actual, expected), tolerance) THEN Mismatch(result, what) ELSE result

CompareWithEntry(expectedTransforms, object, tolerance) ==
  CheckAttr(
    CheckAttr(
      CheckAttr(NewResult, "Position mismatch",
                object.position, expectedTransforms.position, tolerance),
      "Rotation mismatch", object.rotation, expectedTransforms.rotation, tolerance),
    "Scale mismatch", object.scale, ExpectedScale(expectedTransforms.scale), tolerance)

\* this.transforms![objectName], and what validateTransforms returns once
\* this.transforms is set
HasEntry(file, objectName) == objectName \in DOMAIN file

AfterLoad(file, objectName, object, tolerance) ==
  IF ~HasEntry(file, objectName)
  THEN [NewResult EXCEPT !.warnings = <<"No transform configuration found">>]
  ELSE CompareWithEntry(file[objectName], object, tolerance)

\* catch (error) { result.valid = false; result.errors.push(`Validation error: ...`) }
Caught == [NewResult EXCEPT !.valid = FALSE, !.errors = <<"Validation error">>]

\* TransformValidator.validateAgainstConfig(object, config), this.tolerance
\* being tolerance
Match(actual, expected, tolerance) ==
  \A i \in 1..3 : Le(AbsDiff(actual[i], expected[i]), tolerance)

validateAgainstConfig(object, config, tolerance) ==
  /\ Match(object.position, config.position, tolerance)
  /\ Match(object.rotation, config.rotation, tolerance)
  /\ Match(object.scale, ExpectedScale(config.scale), tolerance)

\* A call of validateTransforms ("validate") or loadTransforms ("load").
\* fetch: the fetch it awaits (0: none).  seq: every earlier call had settled
\* when it started (history).
VCall(op, objectName, st, fetch, result) ==
  [op |-> op, name |-> objectName, st |-> st, fetch |-> fetch, result |-> result,
   seq |-> \A i \in DOMAIN vd.calls : vd.calls[i].st # "awaiting"]

\* validateTransforms(objectName, vd.object, vd.tolerance), its result kept
validateTransformsCall(objectName) ==
  /\ Len(vd.calls) < MaxValidations
  /\ IF ~vd.enableValidation
     THEN /\ vd' = [vd EXCEPT !.calls = Append(@, VCall("validate", objectName, "returned", 0, NewResult))]
          /\ UNCHANGED tfetches
     ELSE IF si.transforms # "null"
     THEN /\ vd' = [vd EXCEPT !.calls = Append(@,
                      VCall("validate", objectName, "returned", 0,
                            AfterLoad(vd.file, objectName, vd.object, vd.tolerance)))]
          /\ UNCHANGED tfetches
     ELSE /\ Len(tfetches) < MaxFetches
          /\ tfetches' = StartFetch(tfetches)
          /\ vd' = [vd EXCEPT !.calls = Append(@,
                      VCall("validate", objectName, "awaiting", Len(tfetches) + 1, NewResult))]
  /\ si' = Touched(si)
  /\ UNCHANGED <<readyState, waits, sceneCalls, app>>
  /\ UNCHANGED <<retryVars, loaderVars, pathVars, decoderVars, placeholderVars, transformVars, truckVars>>

\* loadTransforms() called directly, its outcome kept
loadTransformsCall ==
  /\ Len(vd.calls) < MaxValidations
  /\ IF si.transforms # "null"
     THEN /\ vd' = [vd EXCEPT !.calls = Append(@, VCall("load", "", "returned", 0, NewResult))]
          /\ UNCHANGED tfetches
     ELSE /\ Len(tfetches) < MaxFetches
          /\ tfetches' = StartFetch(tfetches)
          /\ vd' = [vd EXCEPT !.calls = Append(@,
                      VCall("load", "", "awaiting", Len(tfetches) + 1, NewResult))]
  /\ si' = Touched(si)
  /\ UNCHANGED <<readyState, waits, sceneCalls, app>>
  /\ UNCHANGED <<retryVars, loaderVars, pathVars, decoderVars, placeholderVars, transformVars, truckVars>>

\* The call c once the fetch it awaits settled: loadTransforms returns
\* this.transforms or rethrows; validateTransforms compares or catches.
Continue(c, ok) ==
  IF c.op = "load"
  THEN [c EXCEPT !.st = IF ok THEN "returned" ELSE "threw"]
  ELSE [c EXCEPT !.st = "returned",
                 !.result = IF ok THEN AfterLoad(vd.file, c.name, vd.object, vd.tolerance)
                            ELSE Caught]

\* The fetch f settles with the calls awaiting it: response.ok and
\* this.transforms = await response.json(), or the throw
ValidationFetched(f, ok) ==
  /\ f \in DOMAIN tfetches
  /\ tfetches[f].st = "pending"
  /\ tfetches' = [tfetches EXCEPT ![f].st = IF ok THEN "ok" ELSE "failed"]
  /\ si' = [Touched(si) EXCEPT !.transforms = IF ok THEN "loaded" ELSE si.transforms]
  /\ vd' = [vd EXCEPT !.calls =
              [i \in DOMAIN vd.calls |->
                 IF vd.calls[i].st = "awaiting" /\ vd.calls[i].fetch = f
                 THEN Continue(vd.calls[i], ok) ELSE vd.calls[i]]]
  /\ UNCHANGED <<readyState, waits, sceneCalls, app>>
  /\ UNCHANGED <<retryVars, loaderVars, pathVars, decoderVars, placeholderVars, transformVars, truckVars>>

\* new TransformValidator(vd.tolerance).validateAgainstConfig(vd.object, entry)
\* for the entry of 'truck'
validateAgainstConfigCall ==
  /\ ~vd.vac.done
  /\ vd' = [vd EXCEPT !.vac = [done |-> TRUE,
               ret |-> validateAgainstConfig(vd.object, vd.file.truck, vd.tolerance)]]
  /\ UNCHANGED <<placeholderVars, sceneVars, transformVars, truckVars>>
  /\ UNCHANGED <<retryVars, loaderVars, pathVars, decoderVars>>

\* The inputs: numbers, vectors, configuration entries (JSON holds no NaN),
\* objects and tolerances
ObjectNames == {"truck", "fuelSensor"}
Zero3 == <<Num(0), Num(0), Num(0)>>
One3 == <<Num(1), Num(1), Num(1)>>
ObjectVecs ==
  {Zero3, One3}
    \cup {[Zero3 EXCEPT ![i] = n] : i \in 1..3, n \in {Num(1), NaN}}
ConfigScales == {<<"number", Num(1)>>, <<"vec3", <<Num(1), Num(1), Num(0)>>>>}
ConfigEntries == [position : {Zero3}, rotation : {Zero3}, scale : ConfigScales]
Objects == [position : ObjectVecs, rotation : ObjectVecs, scale : ObjectVecs]
Tolerances == {Num(0), Num(1), NaN}

NoVac == [done |-> FALSE, ret |-> FALSE]

NoValidate ==
  [file |-> [truck |-> [position |-> Zero3, rotation |-> Zero3, scale |-> <<"number", Num(1)>>]],
   object |-> [position |-> Zero3, rotation |-> Zero3, scale |-> One3],
   tolerance |-> Num(0), enableValidation |-> TRUE, calls |-> << >>, vac |-> NoVac]

ValidateIdle == vd = NoValidate

\* A SceneInitializer just constructed, validation enabled or not, the object
\* in place or one unit off
ValidateInit ==
  \E o \in {NoValidate.object, [NoValidate.object EXCEPT !.position = One3]},
     e \in BOOLEAN :
    vd = [NoValidate EXCEPT !.object = o, !.enableValidation = e]

\* A SceneInitializer that has loaded the configuration; any entry, object and
\* tolerance
CompareInit ==
  \E c \in ConfigEntries, o \in Objects, t \in Tolerances :
    vd = [NoValidate EXCEPT !.file = [truck |-> c], !.object = o, !.tolerance = t]

SceneLoaded ==
  /\ si = [NewSceneInitializer EXCEPT !.transforms = "loaded"]
  /\ readyState = "loading"
  /\ waits = << >>
  /\ sceneCalls = << >>
  /\ tfetches = << >>
  /\ app = NoApp

(***************************************************************************)
(* TruckModel                                                              *)
(***************************************************************************)
\* One run of the component's effect.  mounted: its local flag.  load: where
\* its loadModel() stands: "pending", "aborted" (resolved after the cleanup),
\* "added" (model in the truck group), "failed".  logo: the loadTexture() that
\* applyLogoMaterial started for a mesh named logo: "none", "pending", "done",
\* "failed".
NewEffect == [mounted |-> TRUE, load |-> "pending", logo |-> "none"]

\* loadedRef.current, modelRef.current (0: null, e: the model the e-th effect
\* loaded), truckGroup.children, the logo planes added under a model, and the
\* consumer callbacks invoked, each with the effect's flag at that moment
NoTruck ==
  [effects |-> << >>, loadedRef |-> FALSE, modelRef |-> 0,
   group |-> {}, planes |-> {}, callbacks |-> {}]

TruckIdle == tm = NoTruck

Callback(cb, e) == [cb |-> cb, effect |-> e, mounted |-> tm.effects[e].mounted]

\* React runs an effect's cleanup before it runs the effect again
Live == {e \in DOMAIN tm.effects : tm.effects[e].mounted}

\* if (!mounted) return, after the await of loadAssetWithRetry
AbortsNever(effect) == FALSE
Aborts(effect) == ~effect.mounted

\* The effect: mounted = true, loadModel().  Its loadedRef guard is open
\* whenever the effect runs, the cleanup before it having reset the ref.
TruckMount ==
  /\ Live = {}
  /\ Len(tm.effects) < MaxMounts
  /\ ~tm.loadedRef
  /\ tm' = [tm EXCEPT !.loadedRef = TRUE, !.effects = Append(@, NewEffect)]
  /\ UNCHANGED <<placeholderVars, sceneVars, transformVars, validateVars>>
  /\ UNCHANGED <<retryVars, loaderVars, pathVars, decoderVars>>

\* loadAssetWithRetry resolved for the effect e: the mounted check, the
\* traverse (applyLogoMaterial starts a texture load when the model has a
\* logo mesh), the second mounted check, truckGroup.add(model), onLoad
TruckLoadResolves(e, hasLogo) ==
  /\ e \in DOMAIN tm.effects
  /\ tm.effects[e].load = "pending"
  /\ IF Aborts(tm.effects[e])
     THEN tm' = [tm EXCEPT !.effects[e].load = "aborted"]
     ELSE tm' = [tm EXCEPT !.effects[e].load = "added",
                           !.effects[e].logo = IF hasLogo THEN "pending" ELSE "none",
                           !.modelRef = e,
                           !.group = @ \cup {e},
                           !.callbacks = @ \cup {Callback("onLoad", e)}]
  /\ UNCHANGED <<placeholderVars, sceneVars, transformVars, validateVars>>
  /\ UNCHANGED <<retryVars, loaderVars, pathVars, decoderVars>>

\* loadAssetWithRetry rejected: if (mounted && onError) onError(err)
TruckLoadRejects(e) ==
  /\ e \in DOMAIN tm.effects
  /\ tm.effects[e].load = "pending"
  /\ tm' = [tm EXCEPT !.effects[e].load = "failed",
                      !.callbacks = IF tm.effects[e].mounted
                                    THEN @ \cup {Callback("onError", e)} ELSE @]
  /\ UNCHANGED <<placeholderVars, sceneVars, transformVars, validateVars>>
  /\ UNCHANGED <<retryVars, loaderVars, pathVars, decoderVars>>

\* The logo texture loaded: child.parent.add(logoPlane); onLogoCreated(logoPlane)
LogoTextureLoads(e) ==
  /\ e \in DOMAIN tm.effects
  /\ tm.effects[e].logo = "pending"
  /\ tm' = [tm EXCEPT !.effects[e].logo = "done",
                      !.planes = @ \cup {[model |-> e, mounted |-> tm.effects[e].mounted]},
                      !.callbacks = @ \cup {Callback("onLogoCreated", e)}]
  /\ UNCHANGED <<placeholderVars, sceneVars, transformVars, validateVars>>
  /\ UNCHANGED <<retryVars, loaderVars, pathVars, decoderVars>>

\* The logo texture failed to load: the catch logs
LogoTextureFails(e) ==
  /\ e \in DOMAIN tm.effects
  /\ tm.effects[e].logo = "pending"
  /\ tm' = [tm EXCEPT !.effects[e].logo = "failed"]
  /\ UNCHANGED <<placeholderVars, sceneVars, transformVars, validateVars>>
  /\ UNCHANGED <<retryVars, loaderVars, pathVars, decoderVars>>

\* The cleanup: mounted = false; loadedRef.current = false;
\* if (modelRef.current) truckGroup.remove(modelRef.current)
TruckUnmount(e) ==
  /\ e \in Live
  /\ tm' = [tm EXCEPT !.effects[e].mounted = FALSE,
                      !.loadedRef = FALSE,
                      !.group = IF tm.modelRef # 0 THEN @ \ {tm.modelRef} ELSE @]
  /\ UNCHANGED <<placeholderVars, sceneVars, transformVars, validateVars>>
  /\ UNCHANGED <<retryVars, loaderVars, pathVars, decoderVars>>

AppIdle == PlaceholderIdle /\ SceneIdle /\ TransformIdle /\ ValidateIdle /\ TruckIdle

(***************************************************************************)
(* Specifications                                                          *)
(***************************************************************************)
\* loadAssetWithRetry around an arbitrary operation
RetryNext ==
  \/ \E name \in Names, maxArg \in MaxArgs, extra \in ExtraArgs :
       RetryCall(<<"operation">>, name, maxArg, extra)
  \/ \E v \in Values : AttemptSucceeds(v)
  \/ \E e \in Errors : AttemptFails(e)
  \/ TimerFires

InitRetry == RetryInit /\ LoaderIdle /\ PathIdle /\ DecoderInit /\ AppIdle

SpecRetry == InitRetry /\ [][RetryNext]_vars

\* The shared AssetLoader with the application's call sites: the preload of
\* sharedAssetLoader.ts, TruckModel's load through loadAssetWithRetry, the logo
\* texture load of applyLogoMaterial (FuelSensor loads its logo the same way).
\* Of the four critical assets the two that components load again are kept.
CriticalAssets == <<TruckPath, LogoFrontPath>>
TexturePaths == {LogoFrontPath}

Next ==
  \/ preloadAssets(CriticalAssets)
  \/ RetryCall(<<"loadGLB", TruckPath>>, TruckPath, <<TruckModelRetries>>, << >>)
  \/ TimerFires
  \/ \E path \in TexturePaths : ConsumerLoadTexture(path)
  \/ \E c \in DOMAIN calls : FetchSucceeds(c)
  \/ \E c \in DOMAIN calls : FetchFails(c, "net")
  \/ clearCache

Init == RetryInit /\ LoaderInit /\ PathIdle /\ DecoderInit /\ AppIdle

Spec == Init /\ [][Next]_vars

\* loadGLBWithPlaceholder on the shared loader, with the preload in the background
PlaceholderNext ==
  \/ loadGLBWithPlaceholder(TruckPath)
  \/ preloadAssets(CriticalAssets)
  \/ TimerFires
  \/ \E c \in DOMAIN calls : FetchSucceeds(c)
  \/ \E c \in DOMAIN calls : FetchFails(c, "net")
  \/ PlaceholderThen
  \/ PlaceholderCatch

InitPlaceholder ==
  RetryInit /\ LoaderIdle /\ PathIdle /\ DecoderInit
    /\ PlaceholderInit /\ SceneIdle /\ TransformIdle /\ ValidateIdle /\ TruckIdle

SpecPlaceholder == InitPlaceholder /\ [][PlaceholderNext]_vars

\* One SceneInitializer under arbitrary calls of its methods
SceneNext ==
  \/ waitForCSS
  \/ initializeScene
  \/ LoadEvent
  \/ \E w \in DOMAIN waits : FrameCallback(w)
  \/ markAssetsLoaded
  \/ markRenderingStarted
  \/ reset
  \/ loadTransforms
  \/ validateTransforms
  \/ \E f \in DOMAIN tfetches, ok \in BOOLEAN : TransformsFetched(f, ok)

InitScene ==
  RetryInit /\ LoaderIdle /\ PathIdle /\ DecoderInit
    /\ PlaceholderIdle /\ SceneInit /\ TransformIdle /\ ValidateIdle /\ TruckIdle

SpecScene == InitScene /\ [][SceneNext]_vars

\* waitForCSS and initializeScene alone, animation frames being delivered as
\* long as a callback is registered
CSSNext ==
  \/ waitForCSS
  \/ initializeScene
  \/ LoadEvent
  \/ \E w \in DOMAIN waits : FrameCallback(w)
  \/ reset

SpecCSS ==
  InitScene /\ [][CSSNext]_vars /\ \A w \in 1..MaxWaits : WF_vars(FrameCallback(w))

\* App: the shared loader's preload, initScene, then TruckModel's load and its
\* onLoad.  The event loop keeps running the callbacks that are due; whether the
\* component is unmounted is up to the user.
AppProgress ==
  \/ AppInitScene
  \/ preloadAssets(CriticalAssets)
  \/ LoadEvent
  \/ \E w \in DOMAIN waits : FrameCallback(w)
  \/ AppMountTruck
  \/ TimerFires
  \/ \E c \in DOMAIN calls : FetchSucceeds(c)
  \/ \E c \in DOMAIN calls : FetchFails(c, "net")
  \/ AppTruckOnLoad
  \/ \E f \in DOMAIN tfetches, ok \in BOOLEAN : TransformsFetched(f, ok)

AppNext == AppProgress \/ AppUnmount

SpecApp == InitScene /\ [][AppNext]_vars /\ WF_vars(AppProgress)

TransformNext == applyTransforms

InitTransform ==
  RetryInit /\ LoaderIdle /\ PathIdle /\ DecoderInit
    /\ PlaceholderIdle /\ SceneIdle /\ TransformInit /\ ValidateIdle /\ TruckIdle

SpecTransform == InitTransform /\ [][TransformNext]_vars

\* validateTransforms and loadTransforms from construction, fetches settling
\* either way
ValidateNext ==
  \/ \E n \in ObjectNames : validateTransformsCall(n)
  \/ loadTransformsCall
  \/ \E f \in DOMAIN tfetches, ok \in BOOLEAN : ValidationFetched(f, ok)

InitValidate ==
  RetryInit /\ LoaderIdle /\ PathIdle /\ DecoderInit
    /\ PlaceholderIdle /\ SceneIdle /\ TransformIdle /\ ValidateInit /\ TruckIdle

SpecValidate == InitValidate /\ [][ValidateNext]_vars

\* The two validators on the same object, entry and tolerance
CompareNext ==
  \/ \E n \in ObjectNames : validateTransformsCall(n)
  \/ validateAgainstConfigCall

InitCompare ==
  RetryInit /\ LoaderIdle /\ PathIdle /\ DecoderInit
    /\ PlaceholderIdle /\ SceneLoaded /\ TransformIdle /\ CompareInit /\ TruckIdle

SpecCompare == InitCompare /\ [][CompareNext]_vars

\* TruckModel mounted, unmounted and mounted again, its loads settling at any
\* time
TruckNext ==
  \/ TruckMount
  \/ \E e \in DOMAIN tm.effects, hasLogo \in BOOLEAN : TruckLoadResolves(e, hasLogo)
  \/ \E e \in DOMAIN tm.effects : TruckLoadRejects(e)
  \/ \E e \in DOMAIN tm.effects : LogoTextureLoads(e)
  \/ \E e \in DOMAIN tm.effects : LogoTextureFails(e)
  \/ \E e \in DOMAIN tm.effects : TruckUnmount(e)

InitTruck ==
  RetryInit /\ LoaderIdle /\ PathIdle /\ DecoderInit
    /\ PlaceholderIdle /\ SceneIdle /\ TransformIdle /\ ValidateIdle /\ TruckIdle

SpecTruck == InitTruck /\ [][TruckNext]_vars

PathNext == ResolvePath

InitPath == RetryInit /\ LoaderIdle /\ PathInit /\ DecoderInit /\ AppIdle

SpecPath == InitPath /\ [][PathNext]_vars

\* One LazyDecoderLoader object, as getInstance(config) returned it, and the
\* calls made on it.
DecoderFresh ==
  /\ instance = 1
  /\ mgrs = <<NewManager("cfgA")>>
  /\ proms = << >>
  /\ initCalls = << >>
  /\ bootstraps = 0
  /\ dThrown = "none"
  /\ dReturned = [had |-> 0, got |-> 1]
  /\ dracos = << >>

ManagerNext ==
  \/ \E how \in {"ok", "ctor", "late"} : initializeDecoders(1, how)
  \/ \E p \in DOMAIN proms : IdleCallback(p)
  \/ \E p \in DOMAIN proms : AwaitThrows(p)
  \/ disposeDecoders(1)

InitManager == RetryInit /\ LoaderIdle /\ PathIdle /\ DecoderFresh /\ AppIdle

SpecManager == InitManager /\ [][ManagerNext]_vars

DecoderNext ==
  \/ \E cfgArg \in {<< >>} \cup {<<c>> : c \in DecoderConfigs} : getInstance(cfgArg)
  \/ \E m \in DOMAIN mgrs, how \in {"ok", "ctor", "late"} : initializeDecoders(m, how)
  \/ \E p \in DOMAIN proms : IdleCallback(p)
  \/ \E p \in DOMAIN proms : AwaitThrows(p)
  \/ \E m \in DOMAIN mgrs : disposeDecoders(m)

InitDecoder == RetryInit /\ LoaderIdle /\ PathIdle /\ DecoderInit /\ AppIdle

SpecDecoder == InitDecoder /\ [][DecoderNext]_vars

(***************************************************************************)
(* Claims                                                                  *)
(***************************************************************************)
LogIdx(ev) == {i \in DOMAIN rLog : rLog[i].ev = ev}

\* C1: with maxRetries >= 1, the call rejects exactly when loadFn has been
\* invoked maxRetries times and failed each time; the rejection is an
\* AssetLoadError carrying the given name, attempts = maxRetries and the error of
\* the last attempt, and loadFn is never invoked more than maxRetries times.
C1_ExhaustedRetries ==
  rMax >= 1 =>
    /\ rCalls <= rMax
    /\ (rPc = "rejected") <=> (Cardinality(LogIdx("fail")) = rMax)
    /\ rPc = "rejected" =>
         /\ rCalls = rMax
         /\ rLog[Len(rLog)].ev = "fail"
         /\ rResult = [type |-> "AssetLoadError", assetName |-> rName,
                       attempts |-> rMax,
                       originalError |-> rLog[Len(rLog)].x[1], value |-> << >>]

\* C1 witness: three attempts failed, the first and the last with different
\* errors, and the call rejected.
C1_Witness ==
  /\ rPc = "rejected"
  /\ rMax = 3
  /\ rCalls = 3
  /\ Cardinality(LogIdx("fail")) = 3
  /\ rLog[2].x # rLog[Len(rLog)].x
  /\ rResult.originalError = "e2"

\* The order of events of one call, with `base` as the backoff unit: attempt 1
\* starts first; attempt n+1 starts right after the timer that followed the
\* failure of attempt n fired, and that timer ran base * 2^(n-1); every started
\* attempt settles before anything else happens; a timer is set only after the
\* failure of an attempt that is not the last.
BackoffLog(base) ==
  \A i \in DOMAIN rLog :
    LET e == rLog[i] IN
    /\ e.ev = "start" =>
         \/ e.n = 1 /\ i = 1
         \/ /\ e.n > 1 /\ i >= 4
            /\ rLog[i - 1].ev = "woke"
            /\ rLog[i - 2].ev = "wait" /\ rLog[i - 2].ms = base * Pow2(e.n - 2)
            /\ rLog[i - 3].ev = "fail" /\ rLog[i - 3].n = e.n - 1
    /\ e.ev \in {"fail", "ok"} =>
         i > 1 /\ rLog[i - 1].ev = "start" /\ rLog[i - 1].n = e.n
    /\ e.ev = "wait" =>
         i > 1 /\ rLog[i - 1].ev = "fail" /\ rLog[i - 1].n = e.n /\ e.n < rMax
    /\ e.ev = "woke" => i > 1 /\ rLog[i - 1].ev = "wait"
    /\ (e.ev = "fail" /\ e.n < rMax) => (i = Len(rLog) \/ rLog[i + 1].ev = "wait")

\* C2 (as amended): attempts of one call are strictly sequential; attempt n+1
\* starts only after attempt n failed and a wait of 1000 ms * 2^(n-1) elapsed,
\* whatever delay the caller asks for; no wait follows the final failed attempt.
C2_BackoffFixedUnit == BackoffLog(BackoffUnitMs)

\* C2 (as stated): the same, the backoff unit being the baseDelay the caller
\* supplied (1000 ms when it supplied none).
C2_BackoffCallerUnit == BackoffLog(RequestedBaseDelay)

\* C2 witness: a caller that asked for 500 ms saw two failures, waits of 1000 ms
\* and 2000 ms, and its third and last attempt fail with no wait after it.
C2_Witness ==
  /\ rExtra = <<500>>
  /\ rPc = "rejected"
  /\ rMax = 3
  /\ {rLog[i].ms : i \in LogIdx("wait")} = {1000, 2000}
  /\ rLog[Len(rLog)].ev = "fail"

\* C3: the call rejects only when every one of the maxRetries attempts failed;
\* an attempt that succeeds is the last thing the call does: the call resolves
\* with that attempt's value, not with an earlier failure, and loadFn is not
\* invoked again.
C3_RejectsOnlyWhenExhausted ==
  /\ rPc = "rejected" => \A k \in 1..rMax : \E i \in LogIdx("fail") : rLog[i].n = k
  /\ \A i \in LogIdx("ok") :
       /\ i = Len(rLog)
       /\ rPc = "resolved"
       /\ rResult = Resolved(rLog[i].x[1])
       /\ rCalls = rLog[i].n
  /\ rPc = "resolved" => Len(rLog) > 0 /\ rLog[Len(rLog)].ev = "ok"

\* C3 witness: attempt 1 of 3 failed, attempt 2 succeeded with v2 and the call
\* resolved with v2 after two invocations.
C3_Witness ==
  /\ rPc = "resolved"
  /\ rMax = 3
  /\ rCalls = 2
  /\ LogIdx("fail") # {}
  /\ rResult = Resolved("v2")

\* C4 (as stated): no load ends for its consumer on a fetch failure while
\* attempts remain: a rejected loadGLB / loadTexture promise is always one that
\* loadAssetWithRetry awaits, the preload does not fail, and the wrapper rejects
\* only after its maxRetries attempts.
C4_EveryLoadRetried ==
  /\ \A c \in DOMAIN calls : calls[c].st = "rejected" => calls[c].owner = "retry"
  /\ pre.st # "rejected"
  /\ rPc = "rejected" => rCalls = rMax

\* C5: a load of a path issued after an earlier load of the same path resolved
\* (the cache not cleared in between) resolves at once without a fetch;
\* loadTexture returns the very instance the earlier load returned, loadGLB an
\* instance distinct from every instance another loadGLB call returned.
C5_SequentialLoads ==
  \A c \in DOMAIN calls :
    /\ calls[c].after # 0 =>
         /\ calls[c].st = "resolved"
         /\ ~calls[c].fetched
         /\ calls[c].op = "loadTexture" => calls[c].val = calls[c].after
         /\ calls[c].op = "loadGLB" => calls[c].val # calls[c].after
    /\ \A d \in DOMAIN calls :
         (c # d /\ calls[c].op = "loadGLB" /\ calls[d].op = "loadGLB"
            /\ calls[c].st = "resolved" /\ calls[d].st = "resolved")
         => calls[c].val # calls[d].val

\* C5 witness: a second loadTexture and a second loadGLB, each issued after a
\* first one of the same path had resolved by a fetch.
C5_Witness ==
  /\ \E c \in DOMAIN calls : calls[c].op = "loadTexture" /\ calls[c].after # 0
  /\ \E c \in DOMAIN calls : calls[c].op = "loadGLB" /\ calls[c].after # 0

\* C6 (as stated): between two clearCache calls at most one fetch of a path is
\* issued: a second fetch of the path is issued only after the first one failed.
C6_AtMostOneFetch ==
  \A c, d \in DOMAIN calls :
    (c < d /\ calls[c].key = calls[d].key /\ calls[c].fetched /\ calls[d].fetched
       /\ ~calls[c].stale /\ ~calls[d].stale)
    => calls[c].st = "rejected"

\* C7: once preloadAssets was called, a load of every one of its paths has been
\* issued; its promise is resolved exactly when all of these loads resolved and
\* rejected exactly when one of them was rejected, others still pending or not.
C7_PreloadAll ==
  pre.st # "idle" =>
    /\ Cardinality(pre.ids) = Len(pre.paths)
    /\ pre.ids \subseteq DOMAIN calls
    /\ \A k \in DOMAIN pre.paths : \E i \in pre.ids :
         /\ calls[i].key = getAssetPath(SharedBasePath, pre.paths[k])
         /\ calls[i].owner = "preload"
    /\ (pre.st = "resolved") <=> (\A i \in pre.ids : calls[i].st = "resolved")
    /\ (pre.st = "rejected") <=> (\E i \in pre.ids : calls[i].st = "rejected")

\* C7 witness: the preload rejected on the failure of one load while another of
\* its loads is still in flight.
C7_Witness ==
  /\ pre.st = "rejected"
  /\ \E i \in pre.ids : calls[i].st = "pending"
  /\ \E i \in pre.ids : calls[i].st = "rejected"

\* C8 (as stated): when clearCache has returned the cache is empty and every
\* resource reachable from an object it dropped was disposed before the drop.
C8_ClearDisposesAll ==
  lastOp = "clearCache" => DOMAIN loadedAssets = {} /\ leaked = {}

HasDoubleSlash(s) == FirstDoubleSlash(s) # 0

RECURSIVE TrimLeadingSlashes(_)
TrimLeadingSlashes(s) ==
  IF StartsWithSlash(s) THEN TrimLeadingSlashes(Tail(s)) ELSE s

RECURSIVE TrimTrailingSlashes(_)
TrimTrailingSlashes(s) ==
  IF Len(s) > 0 /\ s[Len(s)] = Slash
  THEN TrimTrailingSlashes(SubSeq(s, 1, Len(s) - 1)) ELSE s

\* C9 (as stated): the resolved path is the base path and the relative path
\* joined by exactly one slash, and has no two consecutive slashes.
C9_SingleSlashJoin ==
  pOut # << >> =>
    /\ pOut[1] = TrimTrailingSlashes(pBase) \o <<Slash>> \o TrimLeadingSlashes(pRel)
    /\ ~HasDoubleSlash(pOut[1])

\* C10 (as stated): a getInstance call that fails for want of a config throws a
\* ConfigurationError and leaves no instance behind.
C10_MissingConfigError ==
  dThrown # "none" => dThrown = "ConfigurationError" /\ instance = 0

\* DRACOLoader objects constructed and not disposed: the AssetLoader's own and
\* those of LazyDecoderLoader.
LiveDecoders ==
  Cardinality({d \in DOMAIN dracos : dracos[d].live})
    + (IF dracoLoader = "set" THEN 1 ELSE 0)

\* C11 (as stated): at most one live decoder exists at any time, and a
\* getInstance call made while an instance exists returns that instance.
C11_OneLiveDecoder ==
  /\ LiveDecoders <= 1
  /\ dReturned.had # 0 => dReturned.got = dReturned.had

\* C12: the initializeDecoders() calls made on a manager never disposed, while
\* none of its calls had settled, all await one and the same bootstrap and stand
\* alike (all pending, all resolved or all rejected); a call made on a Ready
\* manager is resolved and started no bootstrap; bootstraps are exactly the
\* promises performInitialization returned.
C12_SingleFlight ==
  /\ \A i, j \in DOMAIN initCalls :
       (/\ initCalls[i].mgr = initCalls[j].mgr
        /\ initCalls[i].fresh /\ initCalls[j].fresh
        /\ initCalls[i].early /\ initCalls[j].early)
       => /\ initCalls[i].prom # 0
          /\ initCalls[i].prom = initCalls[j].prom
          /\ initCalls[i].st = initCalls[j].st
  /\ \A i \in DOMAIN initCalls :
       initCalls[i].state = "Ready" => initCalls[i].prom = 0 /\ initCalls[i].st = "resolved"
  /\ bootstraps = Len(proms)

\* C12 witness: three calls made before any settled, all rejected by the one
\* failed bootstrap.
C12_Witness ==
  /\ Len(initCalls) = 3
  /\ \A i \in DOMAIN initCalls :
       initCalls[i].fresh /\ initCalls[i].early /\ initCalls[i].st = "rejected"
  /\ bootstraps = 1

\* C13 (as stated): the step in which initializeDecoders() processes the failure
\* of its bootstrap rejects the calls awaiting it and leaves the manager
\* Uninitialized, with no decoder handle obtainable.
C13_FailureResets ==
  [][\A p \in DOMAIN proms :
       (p \in Unprocessed /\ proms'[p].handled) =>
         LET mgr == mgrs'[proms[p].mgr] IN
         /\ \A i \in DOMAIN initCalls : initCalls[i].prom = p => initCalls'[i].st = "rejected"
         /\ MgrState(mgr) = "Uninitialized"
         /\ getDracoLoader(mgr).handle = 0]_vars

\* C14 (as stated): getDracoLoader throws DecoderInitializationError on every
\* manager that is not Ready and returns a handle on every manager that is.
C14_GetDecoderOnlyWhenReady ==
  \A m \in DOMAIN mgrs :
    IF MgrState(mgrs[m]) = "Ready"
    THEN getDracoLoader(mgrs[m]).thrown = "none"
    ELSE getDracoLoader(mgrs[m]).thrown = "DecoderInitializationError"

\* C15: one placeholder is attached, before any load attempt started; it stays a
\* child of the scene while the result is pending; when the result resolved it
\* was removed once, its geometries and materials were disposed, the scene has
\* the children it had before and the result is the model the load returned;
\* when the result rejected every attempt had failed and the placeholder is
\* still the one child added to the scene.
C15_PlaceholderSwap ==
  ph.st # "idle" =>
    /\ ph.attemptsAtAdd = 0
    /\ Cardinality({i \in DOMAIN children : children[i] = PlaceholderGroup}) + ph.removals = 1
    /\ ph.st = "pending" => IsChild(children, PlaceholderGroup)
    /\ ph.st = "resolved" =>
         /\ ~IsChild(children, PlaceholderGroup)
         /\ ph.removals = 1
         /\ ph.disposedParts = PlaceholderResources
         /\ Len(children) = ph.before
         /\ rPc = "resolved" /\ ph.result = rResult.value
         /\ \E c \in DOMAIN calls :
              calls[c].owner = "retry" /\ calls[c].st = "resolved" /\ <<calls[c].val>> = ph.result
    /\ ph.st = "rejected" =>
         /\ IsChild(children, PlaceholderGroup)
         /\ Len(children) = ph.before + 1
         /\ rPc = "rejected" /\ rCalls = PlaceholderRetries
         /\ ph.result = <<"AssetLoadError">>

\* C15 witness: the three attempts failed, the result rejected and the
\* placeholder is still in a scene that had another child.
C15_Witness ==
  /\ ph.st = "rejected"
  /\ ph.before = 1
  /\ IsChild(children, PlaceholderGroup)
  /\ Cardinality({c \in DOMAIN calls : calls[c].owner = "retry" /\ calls[c].st = "rejected"}) = 3

\* C16: sceneReady implies cssLoaded in every state; every scene was constructed
\* with cssLoaded set, and an initializeScene() call that found it unset
\* constructed its scene only after a waitForCSS() of its own completed.
C16_SceneAfterCSS ==
  /\ si.state.sceneReady => si.state.cssLoaded
  /\ \A c \in DOMAIN sceneCalls :
       sceneCalls[c].st = "done" =>
         /\ sceneCalls[c].cssAtConstruct
         /\ sceneCalls[c].waited =>
              \E w \in DOMAIN waits : waits[w].owner = c /\ waits[w].pc = "done"

\* C16 witness: an initializeScene() call made before the document was loaded
\* has constructed its scene.
C16_Witness ==
  /\ si.state.sceneReady
  /\ \E c \in DOMAIN sceneCalls :
       /\ sceneCalls[c].st = "done" /\ sceneCalls[c].waited
       /\ \E w \in DOMAIN waits : waits[w].owner = c /\ waits[w].sawLoad

\* C17: a waitForCSS() call is complete only with the document complete and at
\* least one animation frame delivered to it since; cssLoaded is set only once
\* a call completed; and every call completes once the document is complete,
\* animation frames being delivered.
C17_WaitForCSS ==
  /\ [](\A w \in DOMAIN waits :
          waits[w].pc = "done" => readyState = "complete" /\ waits[w].frames >= 1)
  /\ [](si.state.cssLoaded => \E w \in DOMAIN waits : waits[w].pc = "done")
  /\ \A k \in 1..MaxWaits :
       (k \in DOMAIN waits /\ readyState = "complete")
         ~> (k \in DOMAIN waits /\ waits[k].pc = "done")

\* C17 witness: a call made while the document was loading completed after the
\* load event and three animation frames.
C17_Witness ==
  \E w \in DOMAIN waits :
    /\ waits[w].pc = "done" /\ waits[w].sawLoad /\ waits[w].frames = 1 + FramesToWait
    /\ si.state.cssLoaded

\* C19: a step that takes one of the four flags from true to false is a reset().
C19_FlagsMonotonic ==
  [][\A f \in DOMAIN NewState :
       (si.state[f] /\ ~si'.state[f]) => si'.op = "reset"]_vars

\* C19 witness: the four flags set, the configuration loaded, two scenes built.
C19_Witness ==
  /\ \A f \in DOMAIN NewState : si.state[f]
  /\ si.transforms = "loaded"
  /\ Len(sceneCalls) = 2
  /\ si.op = "other"

\* C18 (as stated): once App started, unless it is unmounted or the model load
\* fails for good, the initializer eventually has its four flags set and
\* isReadyForRendering() returns true.
C18_EventuallyReady ==
  (app.pc # "none")
    ~> \/ ~app.mounted
       \/ rPc = "rejected"
       \/ /\ \A f \in DOMAIN NewState : si.state[f]
          /\ isReadyForRendering(si.state)

WithinTolerance(actual, expected, tolerance) ==
  \A i \in 1..3 : Le(AbsDiff(actual[i], expected[i]), tolerance)

AttrsOutside(entry, object, tolerance) ==
  {a \in {"position", "rotation", "scale"} :
     ~WithinTolerance(object[a],
                      IF a = "scale" THEN ExpectedScale(entry.scale) ELSE entry[a],
                      tolerance)}

C21_ValidExactlyWithinTolerance ==
  \A i \in DOMAIN vd.calls :
    LET c == vd.calls[i] IN
      (c.op = "validate" /\ c.st = "returned" /\ vd.enableValidation /\ si.transforms = "loaded")
        => IF HasEntry(vd.file, c.name)
           THEN /\ c.result.valid = (AttrsOutside(vd.file[c.name], vd.object, vd.tolerance) = {})
                /\ Len(c.result.errors) = Cardinality(AttrsOutside(vd.file[c.name], vd.object, vd.tolerance))
           ELSE /\ c.result.valid
                /\ Len(c.result.warnings) = 1
                /\ c.result.errors = << >>

(***************************************************************************)
(* C22: two validateTransforms calls for the same name, the second started *)
(* after the first returned and next after it, return the same result.     *)
(***************************************************************************)
C22_ValidateTwiceSame ==
  \A i \in DOMAIN vd.calls :
    (/\ i + 1 \in DOMAIN vd.calls
     /\ vd.calls[i].op = "validate" /\ vd.calls[i + 1].op = "validate"
     /\ vd.calls[i].name = vd.calls[i + 1].name
     /\ vd.calls[i + 1].seq
     /\ vd.calls[i].st = "returned" /\ vd.calls[i + 1].st = "returned")
      => vd.calls[i].result = vd.calls[i + 1].result

(***************************************************************************)
(* C23: validateAgainstConfig returns for an object, an entry and a        *)
(* tolerance the boolean that validateTransforms returns as valid for the  *)
(* same object, entry and tolerance.                                       *)
(***************************************************************************)
C23_ValidatorsAgree ==
  \A i \in DOMAIN vd.calls :
    (/\ vd.vac.done
     /\ vd.calls[i].op = "validate" /\ vd.calls[i].st = "returned"
     /\ vd.calls[i].name = "truck")
      => vd.calls[i].result.valid = vd.vac.ret

(***************************************************************************)
(* C24: with no reset() in between, at most one fetch of the configuration *)
(* is in flight or has succeeded, whatever loadTransforms and              *)
(* validateTransforms calls were made and whenever they started.           *)
(***************************************************************************)
C24_FetchedOnce ==
  Cardinality({f \in DOMAIN tfetches : tfetches[f].st \in {"pending", "ok"}}) <= 1

(***************************************************************************)
(* C25: the load chain of an effect whose cleanup has run adds no object   *)
(* to the scene graph and invokes none of onLoad, onError, onLogoCreated.  *)
(***************************************************************************)
C25_NothingAfterUnmount ==
  /\ \A c \in tm.callbacks : c.mounted
  /\ \A p \in tm.planes : p.mounted

(***************************************************************************)
(* C26: the truck group holds at most one loaded model, and none once      *)
(* every effect is cleaned up and every load has settled.                  *)
(***************************************************************************)
C26_AtMostOneTruck ==
  /\ Cardinality(tm.group) <= 1
  /\ (Live = {} /\ \A e \in DOMAIN tm.effects : tm.effects[e].load # "pending")
       => tm.group = {}

\* The first effect's load resolved after its cleanup and was dropped; the
\* model of the second effect is the only one in the group
C26_Witness ==
  /\ Len(tm.effects) >= 2
  /\ tm.effects[1].load = "aborted"
  /\ tm.group = {2}

(***************************************************************************)
(* C27: the object a loadGLB call resolved with is never the object the    *)
(* cache holds for its path.                                               *)
(***************************************************************************)
C27_HandleNotCached ==
  \A c \in DOMAIN calls :
    (calls[c].op = "loadGLB" /\ calls[c].st = "resolved" /\ has(calls[c].key))
      => loadedAssets[calls[c].key] # calls[c].val

(***************************************************************************)
(* C28: whenever loadAssetWithRetry rejects, for any maxRetries, it        *)
(* rejects with an AssetLoadError that carries the asset name given and,   *)
(* as originalError, an error the operation raised.                        *)
(***************************************************************************)
C28_RejectsWithAssetLoadError ==
  rPc = "rejected"
    => /\ rResult.type = "AssetLoadError"
       /\ rResult.assetName = rName
       /\ rResult.originalError \in Errors

(***************************************************************************)
(* C29: a LazyDecoderLoader for which isInitialized() is true returns a    *)
(* loader from getDracoLoader(), and one that dispose() ran on and that    *)
(* was not initialized again does not report itself initialized.           *)
(***************************************************************************)
C29_InitializedHasDecoder ==
  \A m \in DOMAIN mgrs :
    isInitialized(mgrs[m]) => getDracoLoader(mgrs[m]).thrown = "none"

(***************************************************************************)
(* C30: no entry of the cache was put there by a load that was requested   *)
(* before the last clearCache().                                           *)
(***************************************************************************)
C30_NoInsertAfterClear ==
  \A k \in DOMAIN loadedAssets : ~calls[insts[loadedAssets[k]].src].stale

====
